---- MODULE Spec2Model ----
(***************************************************************************)
(* A model of caplog's StableList (src/src/stable_list.rs): a chunked,     *)
(* append-only list with one locking writer (push) and readers (len, get,  *)
(* get_chunk, StableListIterator::next) that synchronise with the writer   *)
(* only through the RwLock around the chunk list and the atomic counter    *)
(* last_global_idx.                                                        *)
(*                                                                         *)
(* Every operation is split into the atomic steps the code performs on     *)
(* shared memory (lock acquisition, atomic load, chunk lookup under the    *)
(* read lock, slot read, slot write, fetch_add), so that every             *)
(* interleaving of a writer with the readers is a behaviour of the model.  *)
(***************************************************************************)
EXTENDS Integers, Sequences, FiniteSets

(* ------------------------------ bounds --------------------------------- *)

\* Slots per chunk. The source sets 128 (stable_list.rs:9); the model scales
\* it down, every use of it below is the source's expression in CHUNK_SIZE.
CHUNK_SIZE == 2

\* Number of push calls a behaviour may start: 2 * CHUNK_SIZE + 1, the size
\* used by test::populate_and_iterate_simple.
MaxPush == 5
LivePush == 3

\* Width in bits of the committed-length counter (AtomicU32 in the source).
CounterBits == 3

\* Largest start / end index handed to bounded_iter.
MaxStart == 3
MaxEnd == 4

\* Calls of log in a behaviour.
MaxLog == 3

(* ----------------------------- constants ------------------------------- *)

\* u32::MAX for the scaled counter width.
U32_MAX == 2 ^ CounterBits - 1

\* The items pushed.
Values == {"a", "b"}

\* The states of a slot that holds no item: MaybeUninit::uninit() memory, and
\* a slot whose (non-atomic) write at line 137 has begun and not finished.
Uninit == "uninit"
Torn == "torn"

\* What a read of a slot without an item may produce besides an item.
Garbage == "garbage"

\* Option::None, and the null chunk pointer of a fresh iterator.
None == "None"
Null == 0

\* Addresses Box::new may return for a chunk: as many as the pushes of a
\* behaviour need (at most MaxPush, or up to a full counter).
Addrs ==
    1 .. ((IF MaxPush > U32_MAX THEN MaxPush ELSE U32_MAX) \div CHUNK_SIZE + 1)

Writers == {"w1", "w2"}
Iters == {"i1", "i2"}

\* The threads that log; a record's message names the thread that logged it.
Loggers == {"t1", "t2"}

\* An index of the vector taken by a write still in progress (lib.rs lines
\* 125-126: "in progress concurrent writes that create gaps").
Gap == "gap"

VARIABLES
    list,             \* the LinkedList of chunk addresses inside list_lock
    mem,              \* mem[a][k]: slot k of the chunk at address a
    last_global_idx,  \* the AtomicU32 committed-length counter
    wlock,            \* holder of list_lock's write guard, or None
    poisoned,         \* list_lock was poisoned by a panic under the write guard
    wr,               \* per writer thread: position in push and its locals
    gt,               \* the thread calling get: position, argument, result
    it,               \* per iterator: the StableListIterator fields, position in next
    pushed,           \* history: the items of the push calls, in call order
    logs,             \* Caplog.logs, the boxcar::Vec<Record>: entries and count
    lg,               \* per logging thread: position in log and the index it took
    handle            \* the CaplogHandle of the test thread, with its history

vars == <<list, mem, last_global_idx, wlock, poisoned, wr, gt, it, pushed,
          logs, lg, handle>>

(* ------------------------------ helpers -------------------------------- *)

Range(s) == {s[k] : k \in 1 .. Len(s)}

\* A fresh chunk: [UnsafeCell<MaybeUninit<T>>; CHUNK_SIZE], nothing initialised
\* (lines 126-127).
uninit_block == [k \in 0 .. (CHUNK_SIZE - 1) |-> Uninit]

\* Box::into_raw(Box::new(block)) (line 128): an address no live chunk has.
\* Chunks are never freed, so the addresses in use are those in the list;
\* addresses are opaque, the model takes the least free one.
new_block_addr == CHOOSE a \in Addrs \ Range(list) : \A b \in Addrs \ Range(list) : a <= b

\* Mutant of push_back: the chunk is put at the front of the list.
push_front(l, a) == <<a>> \o l

\* list.push_back(addr) (line 128).
push_back(l, a) == Append(l, a)

\* Mutant of needs_new_block: the remainder is compared with the chunk size
\* instead of zero, so every push allocates.
needs_new_block_every(global_idx) == global_idx % CHUNK_SIZE < CHUNK_SIZE

\* The test that a new chunk is needed (line 121).
needs_new_block(global_idx) == global_idx % CHUNK_SIZE = 0

\* The slot of the last chunk that push writes (line 137).
push_slot(global_idx) == global_idx % CHUNK_SIZE

\* list.iter_mut().last() (lines 130-133); the expect() cannot fail after
\* line 128 ran for an empty list.
last_block(l) == l[Len(l)]

\* lock.iter().nth(n).copied() (line 152, and line 165 in get): the address of
\* chunk ordinal n, Null for Option::None.
nth_chunk(l, n) == IF n < Len(l) THEN l[n + 1] ELSE Null

\* unwrap_value (lines 180-182) reads the cell as an initialised T. On a cell
\* that holds an item it yields the item; on any other cell the read is
\* undefined behaviour: it may yield any bit pattern, an item or not.
unwrap_value(cell) == IF cell \in Values THEN {cell} ELSE Values \cup {Garbage}

(* ------------------------------- Init ---------------------------------- *)

\* A thread's position outside any call.
Idle == "idle"

InitWriter == [pc |-> Idle, item |-> None, global_idx |-> 0]
InitGet == [pc |-> Idle, idx |-> 0, seen |-> 0, res |-> "-", len |-> 0]
InitIter ==
    [live |-> FALSE, idx |-> 0, end_idx |-> {}, chunk |-> Null, pc |-> Idle,
     start |-> 0, out |-> <<>>, last |-> "-", seen |-> 0, resumed |-> FALSE]

\* No CaplogHandle made yet. start_idx and stop_idx are the fields of the
\* struct (lib.rs lines 111-115, stop_idx an Option as a set); the rest is
\* history: the indices whose records were in the vector when the handle was
\* made (before), when stop_recording was called (at_stop) and when iter was
\* last called (snap), and what that iter yielded (seen).
NoHandle ==
    [live |-> FALSE, start_idx |-> 0, stop_idx |-> {}, before |-> {},
     at_stop |-> {}, iterated |-> FALSE, seen |-> <<>>, snap |-> {}]

\* StableList::new / StableListInner::new (lines 20-22, 103-109): an empty
\* chunk list, counter 0, nobody in a call, no iterator created.
Init ==
    /\ list = <<>>
    /\ mem = [a \in Addrs |-> uninit_block]
    /\ last_global_idx = 0
    /\ wlock = None
    /\ poisoned = FALSE
    /\ wr = [w \in Writers |-> InitWriter]
    /\ gt = InitGet
    /\ it = [i \in Iters |-> InitIter]
    /\ pushed = <<>>
    /\ logs = [slots |-> <<>>, count |-> 0]
    /\ lg = [t \in Loggers |-> [pc |-> Idle, idx |-> 0]]
    /\ handle = NoHandle

(* ------------------------------- push ---------------------------------- *)

\* push, line 112: self.list_lock.write(). Blocks while another writer holds
\* the guard (readers hold theirs only within one step of this model);
\* panics if the lock is poisoned.
PushAcquire(w, item) ==
    /\ wr[w].pc = Idle
    /\ wlock = None
    /\ pushed' = Append(pushed, item)
    /\ IF poisoned
       THEN /\ wr' = [wr EXCEPT ![w] = [@ EXCEPT !.pc = "panicked", !.item = item]]
            /\ UNCHANGED wlock
       ELSE /\ wr' = [wr EXCEPT ![w] = [@ EXCEPT !.pc = "load", !.item = item]]
            /\ wlock' = w
    /\ UNCHANGED <<list, mem, last_global_idx, poisoned, gt, it, logs, lg, handle>>

\* Mutant of PushLock: push enters without waiting for the write guard.
PushLock_NoExclusion(w, item) ==
    /\ Len(pushed) < MaxPush
    /\ wr[w].pc = Idle
    /\ pushed' = Append(pushed, item)
    /\ wr' = [wr EXCEPT ![w] = [@ EXCEPT !.pc = "load", !.item = item]]
    /\ wlock' = w
    /\ UNCHANGED <<list, mem, last_global_idx, poisoned, gt, it, logs, lg, handle>>

\* A push call, in a behaviour of at most MaxPush calls.
PushLock(w, item) == Len(pushed) < MaxPush /\ PushAcquire(w, item)

\* Mutant of PushLoad: the counter is not tested against u32::MAX.
PushLoad_NoLimit(w) ==
    /\ wr[w].pc = "load"
    /\ wr' = [wr EXCEPT ![w] =
                [@ EXCEPT !.global_idx = last_global_idx,
                          !.pc = IF needs_new_block(last_global_idx)
                                 THEN "alloc" ELSE "write"]]
    /\ UNCHANGED <<list, mem, last_global_idx, wlock, poisoned, gt, it, pushed, logs, lg, handle>>

\* push, lines 117-120: load the counter under the lock; panic when it is
\* u32::MAX. The panic unwinds through the write guard, which poisons the
\* lock and releases it.
PushLoad(w) ==
    /\ wr[w].pc = "load"
    /\ IF last_global_idx = U32_MAX
       THEN /\ wr' = [wr EXCEPT ![w] = [@ EXCEPT !.pc = "panicked"]]
            /\ poisoned' = TRUE
            /\ wlock' = None
       ELSE /\ wr' = [wr EXCEPT ![w] =
                        [@ EXCEPT !.global_idx = last_global_idx,
                                  !.pc = IF needs_new_block(last_global_idx)
                                         THEN "alloc" ELSE "write"]]
            /\ UNCHANGED <<poisoned, wlock>>
    /\ UNCHANGED <<list, mem, last_global_idx, gt, it, pushed, logs, lg, handle>>

\* push, lines 121-129: allocate an uninitialised chunk and append it.
PushAlloc(w) ==
    /\ wr[w].pc = "alloc"
    /\ list' = push_back(list, new_block_addr)
    /\ mem' = [mem EXCEPT ![new_block_addr] = uninit_block]
    /\ wr' = [wr EXCEPT ![w] = [@ EXCEPT !.pc = "write"]]
    /\ UNCHANGED <<last_global_idx, wlock, poisoned, gt, it, pushed, logs, lg, handle>>

\* Mutant of PushWriteBegin: the counter is incremented when the store
\* begins, before the slot holds the item.
PushWriteBegin_Publish(w) ==
    /\ wr[w].pc = "write"
    /\ mem' = [mem EXCEPT ![last_block(list)][push_slot(wr[w].global_idx)] = Torn]
    /\ last_global_idx' = (last_global_idx + 1) % (U32_MAX + 1)
    /\ wr' = [wr EXCEPT ![w] = [@ EXCEPT !.pc = "writing"]]
    /\ UNCHANGED <<list, wlock, poisoned, gt, it, pushed, logs, lg, handle>>

\* push, line 137: the write of the slot is a plain (non-atomic) store; it
\* begins here and the slot is torn until PushWriteEnd.
PushWriteBegin(w) ==
    /\ wr[w].pc = "write"
    /\ mem' = [mem EXCEPT ![last_block(list)][push_slot(wr[w].global_idx)] = Torn]
    /\ wr' = [wr EXCEPT ![w] = [@ EXCEPT !.pc = "writing"]]
    /\ UNCHANGED <<list, last_global_idx, wlock, poisoned, gt, it, pushed, logs, lg, handle>>

\* push, line 137: the store completes, the slot holds the item.
PushWriteEnd(w) ==
    /\ wr[w].pc = "writing"
    /\ mem' = [mem EXCEPT ![last_block(list)][push_slot(wr[w].global_idx)] = wr[w].item]
    /\ wr' = [wr EXCEPT ![w] = [@ EXCEPT !.pc = "commit"]]
    /\ UNCHANGED <<list, last_global_idx, wlock, poisoned, gt, it, pushed, logs, lg, handle>>

\* Mutant of PushCommit: the counter is stored from the value loaded at
\* line 117 without the increment.
PushCommit_Store(w) ==
    /\ wr[w].pc = "commit"
    /\ last_global_idx' = wr[w].global_idx
    /\ wr' = [wr EXCEPT ![w] = [@ EXCEPT !.pc = "unlock"]]
    /\ UNCHANGED <<list, mem, wlock, poisoned, gt, it, pushed, logs, lg, handle>>

\* push, line 139: last_global_idx.fetch_add(1, SeqCst) on an AtomicU32.
PushCommit(w) ==
    /\ wr[w].pc = "commit"
    /\ last_global_idx' = (last_global_idx + 1) % (U32_MAX + 1)
    /\ wr' = [wr EXCEPT ![w] = [@ EXCEPT !.pc = "unlock"]]
    /\ UNCHANGED <<list, mem, wlock, poisoned, gt, it, pushed, logs, lg, handle>>

\* Mutant of PushUnlock: push returns without dropping the write guard.
PushUnlock_Leak(w) ==
    /\ wr[w].pc = "unlock"
    /\ wr' = [wr EXCEPT ![w] = [@ EXCEPT !.pc = Idle, !.item = None]]
    /\ UNCHANGED <<list, mem, last_global_idx, wlock, poisoned, gt, it, pushed, logs, lg, handle>>

\* push, line 140: the write guard is dropped when push returns.
PushUnlock(w) ==
    /\ wr[w].pc = "unlock"
    /\ wlock' = None
    /\ wr' = [wr EXCEPT ![w] = [@ EXCEPT !.pc = Idle, !.item = None]]
    /\ UNCHANGED <<list, mem, last_global_idx, poisoned, gt, it, pushed, logs, lg, handle>>

\* The steps of push under the write guard (lines 117-140).
push_locked(w) ==
    \/ PushLoad(w)
    \/ PushAlloc(w)
    \/ PushWriteBegin(w)
    \/ PushWriteEnd(w)
    \/ PushCommit(w)
    \/ PushUnlock(w)

push(w) ==
    \/ \E item \in Values : PushLock(w, item)
    \/ push_locked(w)

\* The item of the n-th push of a caller that pushes a fixed series, as the
\* tests do (for i in 100..200 { list.push(i) }): neighbours differ.
series_item(n) == IF n % 2 = 0 THEN "a" ELSE "b"

\* push of the next item of the series, in a behaviour that goes on until the
\* counter is full and two more calls were made.
push_to_full(w) ==
    \/ Len(pushed) < U32_MAX + 2 /\ PushAcquire(w, series_item(Len(pushed)))
    \/ push_locked(w)

\* push of the next item of the series, in a behaviour of at most LivePush
\* calls.
push_few(w) ==
    \/ Len(pushed) < LivePush /\ PushAcquire(w, series_item(Len(pushed)))
    \/ push_locked(w)

\* push of the next item of the series.
push_series(w) ==
    \/ PushLock(w, series_item(Len(pushed)))
    \/ push_locked(w)

(* ---------------------------- len and get ------------------------------ *)

\* len (lines 143-145): one atomic load; the caller keeps the value returned.
LenCall ==
    /\ gt.pc = Idle
    /\ gt' = [gt EXCEPT !.len = last_global_idx]
    /\ UNCHANGED <<list, mem, last_global_idx, wlock, poisoned, wr, it, pushed, logs, lg, handle>>

\* Mutant of get_in_range: the counter is taken for the last valid index.
get_in_range_le(idx, len) == idx <= len

\* The bounds test of get (line 158) on the counter value it loaded.
get_in_range(idx, len) == idx < len

\* get, line 158: load the counter and compare; out of range returns None
\* (line 168) without touching the lock.
GetLoad(idx) ==
    /\ gt.pc = Idle
    /\ IF get_in_range(idx, last_global_idx)
       THEN gt' = [gt EXCEPT !.pc = "read", !.idx = idx, !.seen = last_global_idx,
                             !.res = "-"]
       ELSE gt' = [gt EXCEPT !.idx = idx, !.seen = last_global_idx, !.res = None]
    /\ UNCHANGED <<list, mem, last_global_idx, wlock, poisoned, wr, it, pushed, logs, lg, handle>>

\* get, lines 159-166: take the read lock (blocks while a writer holds the
\* write guard, panics if poisoned), walk to chunk idx / CHUNK_SIZE and read
\* slot idx % CHUNK_SIZE through unwrap_value; nth's None maps to None.
GetRead ==
    /\ gt.pc = "read"
    /\ wlock = None
    /\ IF poisoned
       THEN gt' = [gt EXCEPT !.pc = "panicked"]
       ELSE LET ch == nth_chunk(list, gt.idx \div CHUNK_SIZE) IN
            IF ch = Null
            THEN gt' = [gt EXCEPT !.pc = Idle, !.res = None]
            ELSE \E v \in unwrap_value(mem[ch][gt.idx % CHUNK_SIZE]) :
                    gt' = [gt EXCEPT !.pc = Idle, !.res = v]
    /\ UNCHANGED <<list, mem, last_global_idx, wlock, poisoned, wr, it, pushed, logs, lg, handle>>

\* Indices handed to get: every index a list of MaxPush items has, and one past.
GetArgs == 0 .. MaxPush

get ==
    \/ \E idx \in GetArgs : GetLoad(idx)
    \/ GetRead

\* get of the first or of the last index a list of LivePush items has.
get_few ==
    \/ \E idx \in {0, LivePush - 1} : GetLoad(idx)
    \/ GetRead

(* ----------------------------- iterators ------------------------------ *)

\* bounded_iter (lines 44-51): a cursor at start with the given end, no chunk
\* cached; iter (lines 30-37) is the case start = 0, end = None. Creation
\* touches no shared state. The Option<usize> end is the set of its values:
\* {} for None, {e} for Some(e). out, last, seen and resumed are history: the
\* (index, value) pairs yielded so far, the return site of the last call of
\* next ("some" for a value), the counter value loaded by the call in
\* progress or by the last call when it returned None (0 after a value), and
\* whether a value was yielded right after a call that returned None.
bounded_iter(i, start, end) ==
    /\ ~it[i].live
    /\ it' = [it EXCEPT ![i] = [InitIter EXCEPT !.live = TRUE, !.idx = start,
                                                !.end_idx = end, !.start = start]]
    /\ UNCHANGED <<list, mem, last_global_idx, wlock, poisoned, wr, gt, pushed, logs, lg, handle>>

iter(i) == bounded_iter(i, 0, {})

\* Mutant of get_chunk: the lookup ignores the ordinal and returns the first
\* chunk of the list.
get_chunk_front(n) == nth_chunk(list, 0)

\* get_chunk (lines 147-155): chunk ordinal n under the read lock.
get_chunk(n) == nth_chunk(list, n)

\* next, line 206: "list is not yet long enough to provide a value".
start_not_ready(idx, len) == idx >= len + 1

\* next, lines 217-218: the cursor reached the end bound.
at_end(idx, end_idx) == \E e \in end_idx : idx + 1 = e

\* Mutant of at_len: the counter is compared with the cursor, not with the
\* index after it.
at_len_cursor(idx, len) == idx = len

\* next, line 223: "no values to return right now".
at_len(idx, len) == idx + 1 = len

\* Mutant of at_chunk_end: the test is made on the index after the cursor, as
\* if the cursor had been advanced before it.
at_chunk_end_advanced(idx) == ((idx + 1) % CHUNK_SIZE) + 1 = CHUNK_SIZE

\* next, line 228: the next index is in the next chunk.
at_chunk_end(idx) == (idx % CHUNK_SIZE) + 1 = CHUNK_SIZE

\* Mutant of ReturnNone: the cursor was advanced before the test that
\* returns None.
ReturnNone_Advanced(i, site, len) ==
    it' = [it EXCEPT ![i] = [@ EXCEPT !.pc = Idle, !.last = site, !.seen = len,
                                      !.idx = @ + 1]]

\* next returns None from the site named: nothing of the iterator changes.
ReturnNone(i, site, len) ==
    it' = [it EXCEPT ![i] = [@ EXCEPT !.pc = Idle, !.last = site, !.seen = len]]

\* Mutant of ReturnSome: the cursor is shared, advancing it moves the cursor
\* of every iterator of the list.
ReturnSome_SharedCursor(i, idx, v) ==
    it' = [j \in Iters |->
             IF j = i
             THEN [it[j] EXCEPT !.pc = Idle, !.idx = idx,
                                !.out = Append(@, [idx |-> idx, val |-> v]),
                                !.resumed = @ \/ it[i].last \notin {"-", "some"},
                                !.last = "some", !.seen = 0]
             ELSE [it[j] EXCEPT !.idx = idx]]

\* next returns Some(value read at index idx).
ReturnSome(i, idx, v) ==
    it' = [it EXCEPT ![i] =
             [@ EXCEPT !.pc = Idle, !.idx = idx,
                       !.out = Append(@, [idx |-> idx, val |-> v]),
                       !.resumed = @ \/ it[i].last \notin {"-", "some"},
                       !.last = "some", !.seen = 0]]

\* next, lines 204-209 and 217-228: the tests made before any chunk lookup
\* or slot read; self.list.len() is one atomic load.
NextBegin(i) ==
    /\ it[i].live
    /\ it[i].pc = Idle
    /\ LET len == last_global_idx
           me == it[i]
       IN  IF me.chunk = Null
           THEN IF start_not_ready(me.idx, len)
                THEN ReturnNone(i, "start", len)
                ELSE it' = [it EXCEPT ![i] = [@ EXCEPT !.pc = "first_chunk", !.seen = len]]
           ELSE IF at_end(me.idx, me.end_idx)
                THEN ReturnNone(i, "end", me.seen)
                ELSE IF at_len(me.idx, len)
                     THEN ReturnNone(i, "len", len)
                     ELSE it' = [it EXCEPT ![i] =
                                   [@ EXCEPT !.pc = IF at_chunk_end(me.idx)
                                                    THEN "next_chunk" ELSE "read",
                                             !.seen = len]]
    /\ UNCHANGED <<list, mem, last_global_idx, wlock, poisoned, wr, gt, pushed, logs, lg, handle>>

\* next, lines 210-213: look up the chunk of the start index under the read
\* lock (blocks while a writer holds the write guard, panics if poisoned).
NextFirstChunk(i) ==
    /\ it[i].pc = "first_chunk"
    /\ wlock = None
    /\ IF poisoned
       THEN it' = [it EXCEPT ![i] = [@ EXCEPT !.pc = "panicked"]]
       ELSE LET ch == get_chunk(it[i].idx \div CHUNK_SIZE) IN
            IF ch = Null
            THEN ReturnNone(i, "no_chunk", it[i].seen)
            ELSE it' = [it EXCEPT ![i] = [@ EXCEPT !.pc = "first_read", !.chunk = ch]]
    /\ UNCHANGED <<list, mem, last_global_idx, wlock, poisoned, wr, gt, pushed, logs, lg, handle>>

\* next, line 215: read the slot of the start index in the cached chunk.
NextFirstRead(i) ==
    /\ it[i].pc = "first_read"
    /\ \E v \in unwrap_value(mem[it[i].chunk][it[i].idx % CHUNK_SIZE]) :
          ReturnSome(i, it[i].idx, v)
    /\ UNCHANGED <<list, mem, last_global_idx, wlock, poisoned, wr, gt, pushed, logs, lg, handle>>

\* next, lines 232-237: look up the next chunk under the read lock.
NextChunk(i) ==
    /\ it[i].pc = "next_chunk"
    /\ wlock = None
    /\ IF poisoned
       THEN it' = [it EXCEPT ![i] = [@ EXCEPT !.pc = "panicked"]]
       ELSE LET ch == get_chunk(it[i].idx \div CHUNK_SIZE + 1) IN
            IF ch = Null
            THEN ReturnNone(i, "no_next_chunk", it[i].seen)
            ELSE it' = [it EXCEPT ![i] = [@ EXCEPT !.pc = "read", !.chunk = ch]]
    /\ UNCHANGED <<list, mem, last_global_idx, wlock, poisoned, wr, gt, pushed, logs, lg, handle>>

\* next, lines 239-240: advance the cursor and read its slot in the cached
\* chunk.
NextRead(i) ==
    /\ it[i].pc = "read"
    /\ \E v \in unwrap_value(mem[it[i].chunk][(it[i].idx + 1) % CHUNK_SIZE]) :
          ReturnSome(i, it[i].idx + 1, v)
    /\ UNCHANGED <<list, mem, last_global_idx, wlock, poisoned, wr, gt, pushed, logs, lg, handle>>

next(i) ==
    \/ NextBegin(i)
    \/ NextFirstChunk(i)
    \/ NextFirstRead(i)
    \/ NextChunk(i)
    \/ NextRead(i)

\* The arguments handed to bounded_iter.
Starts == 0 .. MaxStart
Ends == {{}} \cup {{e} : e \in 0 .. MaxEnd}

(* ------------------------------ capture ------------------------------- *)

\* The indices of the vector that hold a record.
Recorded == {i \in 0 .. Len(logs.slots) - 1 : logs.slots[i + 1] # Gap}

\* boxcar::Vec::count(): the number of records in the vector; a write in
\* progress has taken its index and is not counted.
count == logs.count

\* boxcar::Vec::iter(): the indices that hold a record, in index order (it
\* yields (index, &Record) pairs; the record of an index is logs.slots).
boxcar_iter ==
    SelectSeq([k \in 1 .. Len(logs.slots) |-> k - 1],
              LAMBDA i : logs.slots[i + 1] # Gap)

\* Iterator::skip(n) and Iterator::take(n) on a sequence of yielded elements.
skip(s, n) == SubSeq(s, n + 1, Len(s))
take(s, n) == SubSeq(s, 1, IF n < Len(s) THEN n ELSE Len(s))

\* CaplogHandle::iter (lib.rs lines 127-137).
handle_iter(h) ==
    IF h.stop_idx = {}
    THEN skip(boxcar_iter, h.start_idx)
    ELSE LET stop_idx == CHOOSE e \in h.stop_idx : TRUE
         IN  take(skip(boxcar_iter, h.start_idx), stop_idx - h.start_idx)

\* CaplogHandle::any_msg_contains (lib.rs lines 118-120) for the message of
\* thread t.
any_msg_contains(h, t) ==
    \E k \in 1 .. Len(handle_iter(h)) : logs.slots[handle_iter(h)[k] + 1] = t

\* log (lib.rs lines 84-91), first half of self.logs.push: the write takes
\* the next index of the vector.
LogReserve(t) ==
    /\ lg[t].pc = Idle
    /\ Len(logs.slots) < MaxLog
    /\ logs' = [logs EXCEPT !.slots = Append(@, Gap)]
    /\ lg' = [lg EXCEPT ![t] = [pc |-> "write", idx |-> Len(logs.slots)]]
    /\ UNCHANGED <<list, mem, last_global_idx, wlock, poisoned, wr, gt, it, pushed,
                   handle>>

\* log, second half of self.logs.push: the record is stored at the index
\* taken and counted, and log returns.
LogComplete(t) ==
    /\ lg[t].pc = "write"
    /\ logs' = [logs EXCEPT !.slots[lg[t].idx + 1] = t, !.count = @ + 1]
    /\ lg' = [lg EXCEPT ![t] = [@ EXCEPT !.pc = Idle]]
    /\ UNCHANGED <<list, mem, last_global_idx, wlock, poisoned, wr, gt, it, pushed,
                   handle>>

log(t) ==
    \/ LogReserve(t)
    \/ LogComplete(t)

\* get_handle (lib.rs lines 156-163).
get_handle ==
    /\ ~handle.live
    /\ handle' = [NoHandle EXCEPT !.live = TRUE, !.start_idx = count,
                                  !.before = Recorded]
    /\ UNCHANGED <<list, mem, last_global_idx, wlock, poisoned, wr, gt, it, pushed,
                   logs, lg>>

\* CaplogHandle::stop_recording (lib.rs lines 139-141).
stop_recording ==
    /\ handle.live
    /\ handle.stop_idx = {}
    /\ handle' = [handle EXCEPT !.stop_idx = {count}, !.at_stop = Recorded,
                                !.iterated = FALSE, !.seen = <<>>, !.snap = {}]
    /\ UNCHANGED <<list, mem, last_global_idx, wlock, poisoned, wr, gt, it, pushed,
                   logs, lg>>

\* The test thread runs handle.iter() to its end.
HandleIter ==
    /\ handle.live
    /\ handle' = [handle EXCEPT !.iterated = TRUE, !.seen = handle_iter(handle),
                                !.snap = Recorded]
    /\ UNCHANGED <<list, mem, last_global_idx, wlock, poisoned, wr, gt, it, pushed,
                   logs, lg>>

(* --------------------------- specifications ---------------------------- *)

\* One writer (the design's assumption) with a thread calling len and get.
Next ==
    \/ push("w1")
    \/ LenCall
    \/ get

Spec == Init /\ [][Next]_vars

\* One writer with one iterator, created at any moment by iter or by
\* bounded_iter with any start and end.
NextIter ==
    \/ push("w1")
    \/ iter("i1")
    \/ \E start \in Starts, end \in Ends : bounded_iter("i1", start, end)
    \/ next("i1")

SpecIter == Init /\ [][NextIter]_vars

\* One writer pushing a fixed series, with two iterators made by iter(),
\* each polled at any moment (test::multiple_iterators).
NextMulti ==
    \/ push_series("w1")
    \/ \E i \in Iters : iter(i)
    \/ \E i \in Iters : next(i)

SpecMulti == Init /\ [][NextMulti]_vars

\* Threads pushing a fixed series until the counter is full and beyond, with
\* a thread calling get.
NextFull ==
    \/ \E w \in Writers : push_to_full(w)
    \/ get

SpecFull == Init /\ [][NextFull]_vars

\* Several threads pushing any items at any moment through the shared
\* reference that push takes (line 58), with a thread calling len.
NextWriters ==
    \/ \E w \in Writers : push(w)
    \/ LenCall

SpecWriters == Init /\ [][NextWriters]_vars

\* Two threads pushing a short series, a thread calling get and a thread
\* polling an iterator made by iter(), all at any moment.
NextLive ==
    \/ \E w \in Writers : push_few(w)
    \/ get_few
    \/ iter("i1")
    \/ next("i1")

\* Fair scheduling: a thread inside a call takes its next step (weak
\* fairness), and a thread waiting for the lock gets it if the lock is free
\* again and again (strong fairness). Nothing obliges a thread to begin a
\* call.
LiveFair ==
    /\ \A w \in Writers : WF_vars(push_locked(w))
    /\ SF_vars(GetRead)
    /\ \A i \in Iters :
          /\ SF_vars(NextFirstChunk(i) \/ NextChunk(i))
          /\ WF_vars(NextFirstRead(i) \/ NextRead(i))

SpecLive == Init /\ [][NextLive]_vars /\ LiveFair

\* Threads logging at any moment (the log interface is global, lib.rs lines
\* 28-31) while the test thread makes a handle, stops it and reads it.
NextLog ==
    \/ \E t \in Loggers : log(t)
    \/ get_handle
    \/ stop_recording
    \/ HandleIter

SpecLog == Init /\ [][NextLog]_vars

(* ------------------------ definitions for claims ----------------------- *)

\* The slot of absolute index i: slot i % CHUNK_SIZE of chunk i / CHUNK_SIZE,
\* Uninit while that chunk does not exist.
Slot(i) ==
    IF i \div CHUNK_SIZE < Len(list)
    THEN mem[list[i \div CHUNK_SIZE + 1]][i % CHUNK_SIZE]
    ELSE Uninit

\* The writers inside a push call.
InPush == {w \in Writers : wr[w].pc # Idle}

\* The return sites of next that return None.
NoneSites == {"start", "no_chunk", "end", "len", "no_next_chunk"}

\* Iterator i was created by iter().
IsIter(i) == it[i].live /\ it[i].start = 0 /\ it[i].end_idx = {}

(* -------------------------------- C1 ----------------------------------- *)

\* C1: a finished get(idx) returned the item of the idx-th push (0-based)
\* when idx was below the length it loaded, and None when idx was at or
\* beyond it; whatever the length, chunk boundaries included.
C1_GetReturnsPushed ==
    (gt.pc = Idle /\ gt.res # "-") =>
        IF gt.idx < gt.seen
        THEN gt.idx < Len(pushed) /\ gt.res = pushed[gt.idx + 1]
        ELSE gt.res = None

\* C1 witness: with 2 * CHUNK_SIZE items pushed, get at the first index of the
\* second chunk returned an item.
C1_Witness ==
    /\ gt.pc = Idle
    /\ gt.idx = CHUNK_SIZE
    /\ gt.res \in Values
    /\ last_global_idx = 2 * CHUNK_SIZE

(* -------------------------------- C2 ----------------------------------- *)

C9_LenMonotonic ==
    /\ [][last_global_idx' >= last_global_idx /\ gt'.len >= gt.len]_vars
    /\ [](/\ last_global_idx <= Len(pushed)
          /\ gt.len <= Len(pushed)
          /\ InPush = {} => last_global_idx = Len(pushed))

\* C9 witness: len() returned MaxPush after every push completed.
C9_Witness == InPush = {} /\ gt.len = MaxPush /\ Len(pushed) = MaxPush

(* -------------------------------- C10 ---------------------------------- *)

\* C10: a step never removes, replaces or reorders a chunk of the chunk
\* list, and never changes a slot below the committed length: the address
\* and the content behind a reference handed out stay what they were.
C10_Stable ==
    [][/\ Len(list') >= Len(list)
       /\ \A n \in 1 .. Len(list) : list'[n] = list[n]
       /\ \A i \in 0 .. (last_global_idx - 1) :
             mem'[list[i \div CHUNK_SIZE + 1]][i % CHUNK_SIZE] = Slot(i)]_vars

\* C10 witness: a second chunk was appended and written after a get
\* returned an item of the first chunk.
C10_Witness ==
    /\ Len(list) >= 2
    /\ last_global_idx > CHUNK_SIZE
    /\ gt.pc = Idle
    /\ gt.res \in Values
    /\ gt.seen <= CHUNK_SIZE

(* -------------------------------- C3 ----------------------------------- *)

\* The k-th value an iterator yielded is the item pushed at index n.
YieldedIs(i, k, n) ==
    /\ it[i].out[k].idx = n
    /\ n < Len(pushed)
    /\ it[i].out[k].val = pushed[n + 1]

\* C3: what an iterator made by iter() has yielded is a prefix of the pushed
\* items, in push order from index 0, nothing skipped or repeated, across
\* chunk boundaries and across calls that returned None; when a call
\* returns None having loaded a length of 2 * CHUNK_SIZE + 1, exactly that
\* many values were yielded.
C3_IterYieldsPrefix ==
    \A i \in Iters : IsIter(i) =>
        /\ \A k \in 1 .. Len(it[i].out) : YieldedIs(i, k, k - 1)
        /\ (it[i].pc = Idle /\ it[i].last \in NoneSites
                /\ it[i].seen = 2 * CHUNK_SIZE + 1)
              => Len(it[i].out) = 2 * CHUNK_SIZE + 1

\* C3 witness: an iterator made by iter() yielded 2 * CHUNK_SIZE + 1 values,
\* resumed after None at least once, and its last call returned None.
C3_Witness ==
    \E i \in Iters :
        /\ IsIter(i)
        /\ Len(it[i].out) = 2 * CHUNK_SIZE + 1
        /\ it[i].resumed
        /\ it[i].last = "len"

(* -------------------------------- C4 ----------------------------------- *)

\* C4: an iterator made by iter() returns None only when the length the
\* call loaded equals the number of values it has yielded (no committed
\* element was left unread), and has never yielded more values than are
\* committed (on the empty list its first call returns None): after a push
\* completes, the next call yields.
C4_ExhaustionNotSticky ==
    \A i \in Iters : IsIter(i) =>
        /\ (it[i].pc = Idle /\ it[i].last \in NoneSites)
              => it[i].seen = Len(it[i].out)
        /\ Len(it[i].out) <= last_global_idx

\* C4 witness: an iterator made by iter() whose first call returned None on
\* the empty list yielded a value on a later call.
C4_Witness ==
    \E i \in Iters :
        /\ IsIter(i)
        /\ it[i].resumed
        /\ Len(it[i].out) = 1
        /\ it[i].last = "some"

(* -------------------------------- C5 ----------------------------------- *)

\* C5: every value an iterator yielded is at an index below the committed
\* length (the length never decreases, so an index committed when next was
\* called is still below it).
C5_YieldsOnlyCommitted ==
    \A i \in Iters : \A k \in 1 .. Len(it[i].out) :
        it[i].out[k].idx < last_global_idx

(* -------------------------------- C6 ----------------------------------- *)

\* C6: an iterator made by bounded_iter(s, Some(e)) has yielded no index at
\* or beyond e, whatever s and e.
C6_NeverYieldsPastEnd ==
    \A i \in Iters : \A e \in it[i].end_idx : \A k \in 1 .. Len(it[i].out) :
        it[i].out[k].idx < e

(* -------------------------------- C7 ----------------------------------- *)

\* C7: an iterator made by bounded_iter(s, Some(e)) with s < e has yielded
\* the items pushed at s, s + 1, ... in that order, at most e - s of them;
\* when a call returns None because the end is reached, or having loaded a
\* length of at least e, exactly e - s values were yielded.
C7_BoundedWindow ==
    \A i \in Iters : \A e \in it[i].end_idx :
        (it[i].live /\ it[i].start < e) =>
            /\ \A k \in 1 .. Len(it[i].out) : YieldedIs(i, k, it[i].start + k - 1)
            /\ Len(it[i].out) <= e - it[i].start
            /\ (it[i].pc = Idle /\ it[i].last = "end")
                  => Len(it[i].out) = e - it[i].start

(* -------------------------------- C8 ----------------------------------- *)

\* C8: an iterator made by bounded_iter(s, None) has yielded the items pushed
\* at s, s + 1, ... in that order: its first value is the item at index s.
C8_StartsAtStart ==
    \A i \in Iters : (it[i].live /\ it[i].end_idx = {}) =>
        \A k \in 1 .. Len(it[i].out) : YieldedIs(i, k, it[i].start + k - 1)

(* -------------------------------- C11 ---------------------------------- *)

\* C11: each of several iterators made by iter() has yielded a prefix of the
\* pushed items in push order, returns None only when the length its call
\* loaded equals the number of values it has yielded (so each pushed value is
\* seen once by each), and a step of next on one iterator changes no other
\* iterator and nothing of the list.
C11_IndependentIterators ==
    /\ [](\A i \in Iters : it[i].live =>
            /\ \A k \in 1 .. Len(it[i].out) : YieldedIs(i, k, k - 1)
            /\ (it[i].pc = Idle /\ it[i].last \in NoneSites)
                  => it[i].seen = Len(it[i].out))
    /\ [][\A i \in Iters : (it[i].live /\ it'[i] # it[i]) =>
            /\ \A j \in Iters \ {i} : it'[j] = it[j]
            /\ UNCHANGED <<list, mem, last_global_idx, wlock>>]_vars

\* C11 witness: two iterators at different positions: one has yielded every
\* one of MaxPush items, the other has yielded one more than a chunk, and
\* both resumed after a None.
C11_Witness ==
    /\ Len(it["i1"].out) = MaxPush
    /\ Len(it["i2"].out) = CHUNK_SIZE + 1
    /\ it["i1"].resumed
    /\ it["i2"].resumed

(* -------------------------------- C12 ---------------------------------- *)

\* C12: a push that finds the counter at u32::MAX panics: the counter never
\* decreases (it does not wrap), no push is past the test with a full
\* counter, and the step in which a push panics changes neither the chunk
\* list, nor a slot, nor the counter.
C12_FullPanics ==
    /\ [](\A w \in Writers :
            wr[w].pc \in {"alloc", "write", "writing", "commit"}
                => last_global_idx < U32_MAX)
    /\ [][/\ last_global_idx' >= last_global_idx
          /\ \A w \in Writers :
                (wr'[w].pc = "panicked" /\ wr[w].pc # "panicked")
                    => UNCHANGED <<list, mem, last_global_idx>>]_vars

\* C12 witness: a push panicked on the full counter, which still holds
\* u32::MAX, with every slot below it holding its item.
C12_Witness ==
    /\ \E w \in Writers : wr[w].pc = "panicked"
    /\ poisoned
    /\ last_global_idx = U32_MAX
    /\ \A i \in 0 .. (U32_MAX - 1) : Slot(i) = pushed[i + 1]

(* -------------------------------- C13 ---------------------------------- *)

\* C13: while a push holds the write guard an iterator can be created and
\* every step of a call of next can be taken: no step of a reader waits for
\* the writer.
C13_ReadersNeverBlocked ==
    wlock # None =>
        \A i \in Iters :
            /\ ~it[i].live => ENABLED iter(i)
            /\ (it[i].live /\ it[i].pc # "panicked") => ENABLED next(i)

(* -------------------------------- C16 ---------------------------------- *)

\* ceil(n / CHUNK_SIZE).
ChunksFor(n) == (n + CHUNK_SIZE - 1) \div CHUNK_SIZE

\* C16: when no push is in progress the chunk list holds
\* ceil(len / CHUNK_SIZE) chunks (none for the empty list); a push that is at
\* or past the slot write has the chunk of its slot in the list; a step
\* appends at most one chunk, and only when the index to be written is a
\* multiple of CHUNK_SIZE, so a push allocates at most once.
C16_LazyChunks ==
    /\ [](/\ InPush = {} => Len(list) = ChunksFor(last_global_idx)
          /\ Len(list) \in {ChunksFor(last_global_idx), ChunksFor(last_global_idx + 1)}
          /\ \A w \in Writers :
                wr[w].pc \in {"write", "writing", "commit", "unlock"}
                    => wr[w].global_idx \div CHUNK_SIZE < Len(list))
    /\ [][Len(list') # Len(list) =>
            /\ Len(list') = Len(list) + 1
            /\ last_global_idx % CHUNK_SIZE = 0
            /\ last_global_idx' = last_global_idx]_vars

\* C16 witness: after CHUNK_SIZE + 1 pushes, none in progress, there are two
\* chunks, the second holding one item.
C16_Witness ==
    /\ InPush = {}
    /\ last_global_idx = CHUNK_SIZE + 1
    /\ Len(list) = 2
    /\ mem[list[2]][0] \in Values
    /\ mem[list[2]][1] = Uninit

(* -------------------------------- C17 ---------------------------------- *)

\* C17: a call of next that returns None leaves idx and chunk as they were
\* when it was called. Stated on the steps of a call: the step that returns
\* None changes neither; a step that changes one of them either returns a
\* value or leaves the call at a slot read; and a slot read always returns a
\* value. So no call that changed idx or chunk returns None.
C17_NoneChangesNothing ==
    [][\A i \in Iters :
         (it[i].live /\ it'[i] # it[i]) =>
            /\ (it'[i].pc = Idle /\ it'[i].last \in NoneSites)
                  => (it'[i].idx = it[i].idx /\ it'[i].chunk = it[i].chunk)
            /\ (it'[i].idx # it[i].idx \/ it'[i].chunk # it[i].chunk)
                  => \/ it'[i].pc \in {"first_read", "read"}
                     \/ it'[i].pc = Idle /\ it'[i].last = "some"
            /\ it[i].pc \in {"first_read", "read"}
                  => (it'[i].pc = Idle /\ it'[i].last = "some")]_vars

\* C17 witness: a call returned None at a chunk boundary because the next
\* chunk is missing, after the iterator had yielded a value.
C17_Witness ==
    \E i \in Iters :
        /\ it[i].pc = Idle
        /\ it[i].last = "no_next_chunk"
        /\ it[i].out # <<>>
        /\ it[i].idx = it[i].out[Len(it[i].out)].idx

(* -------------------------------- C20 ---------------------------------- *)

\* C20: between calls of next, a non-null cached chunk is the chunk of
\* ordinal idx / CHUNK_SIZE and idx is the index of the last value returned;
\* the cached chunk is null exactly while the iterator has returned no value;
\* and idx never decreases.
C20_CursorShape ==
    /\ [](\A i \in Iters :
            (it[i].live /\ it[i].pc = Idle) =>
               /\ (it[i].chunk = Null) <=> (it[i].out = <<>>)
               /\ it[i].chunk # Null =>
                     /\ it[i].chunk = nth_chunk(list, it[i].idx \div CHUNK_SIZE)
                     /\ it[i].idx = it[i].out[Len(it[i].out)].idx)
    /\ [][\A i \in Iters : it[i].live => it'[i].idx >= it[i].idx]_vars

\* C20 witness: an iterator between calls whose last value came from the
\* second chunk, reached over a chunk boundary.
C20_Witness ==
    \E i \in Iters :
        /\ it[i].pc = Idle
        /\ Len(it[i].out) > 1
        /\ it[i].idx \div CHUNK_SIZE = 1
        /\ it[i].out[1].idx \div CHUNK_SIZE = 0
        /\ Len(list) > 1
        /\ it[i].chunk = list[2]

(* -------------------------------- C18 ---------------------------------- *)

\* C18: pushes of several threads are serialised by the write guard: at most
\* one thread is past the acquisition, and it is the holder; a push that is
\* writing writes the slot at the committed length, which no finished push
\* wrote; every slot below the length holds the item of the push that took
\* the guard at that position, so none is lost or overwritten; and when no
\* push is in progress the length is the number of pushes made.
C18_PushesSerialised ==
    /\ Cardinality(InPush) <= 1
    /\ \A w \in InPush : wlock = w
    /\ \A w \in Writers :
          wr[w].pc \in {"alloc", "write", "writing", "commit"}
              => wr[w].global_idx = last_global_idx
    /\ \A i \in 0 .. MaxPush :
          i < last_global_idx => (i < Len(pushed) /\ Slot(i) = pushed[i + 1])
    /\ InPush = {} => last_global_idx = Len(pushed)

\* C18 witness: both threads have finished pushes, one at index 1 and the
\* other at index 2, and the length is the number of pushes made.
C18_Witness ==
    /\ InPush = {}
    /\ wr["w1"].global_idx = 1
    /\ wr["w2"].global_idx = 2
    /\ last_global_idx = 3
    /\ Len(pushed) = 3
    /\ pushed[2] # pushed[3]

(* -------------------------------- C19 ---------------------------------- *)

\* C19: the thread holding the write guard always has a step to take, so it
\* never waits for another thread while holding it, and the guard is held
\* exactly while a push is between its acquisition and its return; under
\* fair scheduling a held guard is released, so every push that acquired it
\* returns and no thread waits for it for ever; and every call of get and of
\* next that has begun returns (or panics).
C19_NoBlocking ==
    /\ [](/\ \A w \in Writers : wlock = w => ENABLED push_locked(w)
          /\ \A w \in Writers : wr[w].pc \notin {Idle, "panicked"} <=> wlock = w)
    /\ (wlock # None) ~> (wlock = None)
    /\ (gt.pc = "read") ~> (gt.pc \in {Idle, "panicked"})
    /\ \A i \in Iters :
          (it[i].pc \notin {Idle, "panicked"}) ~> (it[i].pc \in {Idle, "panicked"})

\* C19 witness: a get and a next both wait for the read lock while a thread
\* holds the write guard in the middle of its slot write, after the other
\* thread pushed.
C19_Witness ==
    /\ wlock = "w2"
    /\ wr["w2"].pc = "writing"
    /\ wr["w1"].pc = Idle
    /\ last_global_idx > 0
    /\ gt.pc = "read"
    /\ it["i1"].pc \in {"first_chunk", "next_chunk"}

(* -------------------------------- C14 ---------------------------------- *)

\* C14: what iter() of a handle yields is exactly the records logged while
\* the handle was recording: none that was in the log when the handle was
\* made; after stop_recording, those that were in the log when it was called;
\* without stop_recording, all that are in the log.
C14_HandleWindow ==
    handle.iterated =>
        Range(handle.seen) =
            (IF handle.stop_idx = {} THEN handle.snap ELSE handle.at_stop)
                \ handle.before

====
